---- MODULE Spec2Model ----
(***************************************************************************)
(* Model of the RNA inspector of snort3                                    *)
(* (src/network_inspectors/rna/rna_inspector.cc): the construction of the  *)
(* inspector with the loading of the RNA configuration file, the           *)
(* per-packet evaluation on thread-local statistics, show, tinit/tterm and *)
(* destruction.                                                            *)
(*                                                                         *)
(* Text is modelled as sequences of atoms.  An atom is one character       *)
(* (" ", "\t", "#", "-", "+", a digit, a letter) or a keyword of the       *)
(* directive table standing for its characters ("pnd", "UpdateTimeout").   *)
(* A line is a sequence of atoms, a file a sequence of lines.              *)
(*                                                                         *)
(* int and unsigned are scaled down to IntBits bits, keeping the relation  *)
(* between the range of std::stoi (signed) and the range of the unsigned   *)
(* fields it is stored into.                                               *)
(***************************************************************************)
EXTENDS Integers, Sequences, FiniteSets, TLC

\* ------------------------------------------------------------------ bounds
\* width of int / unsigned in the model
IntBits == 4
\* longest configuration file, in lines
MaxLines == 3
\* packets a thread counts
MaxPackets == 2

RECURSIVE Pow2(_)
Pow2(n) == IF n = 0 THEN 1 ELSE 2 * Pow2(n - 1)

INT_MAX == Pow2(IntBits - 1) - 1
INT_MIN == -Pow2(IntBits - 1)
UINT_MAX == Pow2(IntBits) - 1

\* the packet threads, each with its own THREAD_LOCAL rna_stats
Threads == {"pkt_thread_1", "pkt_thread_2"}

\* ------------------------------------------------------------------- text
DigitAtoms == <<"0", "1", "2", "3", "4", "5", "6", "7", "8", "9">>

IsDigit(a) == \E d \in 1..10 : DigitAtoms[d] = a
DigitVal(a) == (CHOOSE d \in 1..10 : DigitAtoms[d] = a) - 1

\* std::isspace, as operator>> uses it to delimit words
IsSpace(a) == a \in {" ", "\t"}

\* the decimal text of n >= 0
RECURSIVE Dec(_)
Dec(n) == IF n < 10 THEN <<DigitAtoms[n + 1]>>
          ELSE Dec(n \div 10) \o <<DigitAtoms[(n % 10) + 1]>>

\* the value of a sequence of digits
RECURSIVE DecVal(_)
DecVal(ds) == IF ds = <<>> THEN 0
              ELSE 10 * DecVal(SubSeq(ds, 1, Len(ds) - 1)) + DigitVal(ds[Len(ds)])

RECURSIVE DigitPrefix(_)
DigitPrefix(s) == IF s # <<>> /\ IsDigit(Head(s))
                  THEN <<Head(s)>> \o DigitPrefix(Tail(s))
                  ELSE <<>>

\* std::stoi(str): optional sign, the longest prefix of digits; throws
\* invalid_argument when there is no digit and out_of_range when the value
\* is no int.  Trailing characters are ignored.
stoi(str) ==
    LET signed == str # <<>> /\ Head(str) \in {"+", "-"}
        neg == str # <<>> /\ Head(str) = "-"
        ds == DigitPrefix(IF signed THEN Tail(str) ELSE str)
        v == IF neg THEN -DecVal(ds) ELSE DecVal(ds)
    IN  IF ds = <<>> THEN [thrown |-> "invalid_argument", val |-> 0]
        ELSE IF v < INT_MIN \/ v > INT_MAX THEN [thrown |-> "out_of_range", val |-> 0]
        ELSE [thrown |-> "none", val |-> v]

\* the conversion of the int stoi returns to the unsigned field it is stored in
ToUnsigned(v) == v % (UINT_MAX + 1)

\* operator>>(istream&, string&): skip white space, take the characters up
\* to the next white space
RECURSIVE SkipWs(_)
SkipWs(s) == IF s # <<>> /\ IsSpace(Head(s)) THEN SkipWs(Tail(s)) ELSE s

RECURSIVE TakeWord(_)
TakeWord(s) == IF s = <<>> \/ IsSpace(Head(s)) THEN <<>>
               ELSE <<Head(s)>> \o TakeWord(Tail(s))

Extract(s) ==
    LET r == SkipWs(s)
        w == TakeWord(r)
    IN  [word |-> w, rest |-> SubSeq(r, Len(w) + 1, Len(r))]

\* a strict reading of the line: the three items come out empty when the
\* line holds a fourth word
ExtractItemsStrict(line) ==
    LET a == Extract(line)
        b == Extract(a.rest)
        c == Extract(b.rest)
        d == Extract(c.rest)
    IN  IF d.word # <<>>
        THEN [config_type |-> <<>>, config_key |-> <<>>, config_value |-> <<>>]
        ELSE [config_type |-> a.word, config_key |-> b.word, config_value |-> c.word]

\* line_stream >> config_type >> config_key >> config_value
ExtractItems(line) ==
    LET a == Extract(line)
        b == Extract(a.rest)
        c == Extract(b.rest)
    IN  [config_type |-> a.word, config_key |-> b.word, config_value |-> c.word]

\* line.empty() or line.front() == '#'
SkipLine(line) == line = <<>> \/ Head(line) = "#"

\* the test with the value left out
EmptyItemsNoValue(it) == it.config_type = <<>> \/ it.config_key = <<>>

\* config_type.empty() or config_key.empty() or config_value.empty()
EmptyItems(it) ==
    it.config_type = <<>> \/ it.config_key = <<>> \/ it.config_value = <<>>

\* ---------------------------------------------------------------- objects
NullPtr == [null |-> TRUE]

\* new RnaConfig
DefaultRnaConfig ==
    [update_timeout |-> 0, max_host_client_apps |-> 0, max_payloads |-> 0,
     max_host_services |-> 0, max_host_service_info |-> 0,
     enable_banner_grab |-> FALSE]

IntFields == {"update_timeout", "max_host_client_apps", "max_payloads",
              "max_host_services", "max_host_service_info"}

\* the chain comparing the key alone
IntFieldOfKey(it) ==
    IF it.config_key = <<"UpdateTimeout">> THEN "update_timeout"
    ELSE IF it.config_key = <<"MaxHostClientApps">> THEN "max_host_client_apps"
    ELSE IF it.config_key = <<"MaxPayloads">> THEN "max_payloads"
    ELSE IF it.config_key = <<"MaxHostServices">> THEN "max_host_services"
    ELSE IF it.config_key = <<"MaxHostServiceInfo">> THEN "max_host_service_info"
    ELSE ""

\* the if / else-if chain of load_rna_conf: the integer field a (type, key)
\* pair selects, "" when it selects none
IntFieldOf(it) ==
    IF it.config_type = <<"pnd">> /\ it.config_key = <<"UpdateTimeout">>
        THEN "update_timeout"
    ELSE IF it.config_type = <<"config">> /\ it.config_key = <<"MaxHostClientApps">>
        THEN "max_host_client_apps"
    ELSE IF it.config_type = <<"config">> /\ it.config_key = <<"MaxPayloads">>
        THEN "max_payloads"
    ELSE IF it.config_type = <<"config">> /\ it.config_key = <<"MaxHostServices">>
        THEN "max_host_services"
    ELSE IF it.config_type = <<"config">> /\ it.config_key = <<"MaxHostServiceInfo">>
        THEN "max_host_service_info"
    ELSE ""

\* the last branch of the chain
BannerGrabOn(it) ==
    /\ it.config_type = <<"protoid">>
    /\ it.config_key = <<"BannerGrab">>
    /\ it.config_value # <<"0">>

\* One line of the loop body applied to the record conf: the record after
\* it, the warning it emits (<<>> when none) and the exception it throws.
LineOutcome(conf, line, line_num, path) ==
    LET it == ExtractItems(line)
        f == IntFieldOf(it)
        n == stoi(it.config_value)
    IN  IF SkipLine(line)
            THEN [conf |-> conf, warn |-> <<>>, thrown |-> "none"]
        ELSE IF EmptyItems(it)
            THEN [conf |-> conf,
                  warn |-> <<[msg |-> "empty_items", line |-> line_num, path |-> path]>>,
                  thrown |-> "none"]
        ELSE IF f # ""
            THEN IF n.thrown # "none"
                 THEN [conf |-> conf, warn |-> <<>>, thrown |-> n.thrown]
                 ELSE [conf |-> [conf EXCEPT ![f] = ToUnsigned(n.val)],
                       warn |-> <<>>, thrown |-> "none"]
        ELSE IF BannerGrabOn(it)
            THEN [conf |-> [conf EXCEPT !.enable_banner_grab = TRUE],
                  warn |-> <<>>, thrown |-> "none"]
        ELSE [conf |-> conf, warn |-> <<>>, thrown |-> "none"]

\* ----------------------------------------------------------------- inputs
Sp == <<" ">>

\* the text  type key value
Directive(type, key, value) == <<type>> \o Sp \o <<key>> \o Sp \o value

\* the lines configuration files are made of
LinePool ==
    { <<>>,
      <<"#">> \o Directive("pnd", "UpdateTimeout", Dec(2)),
      <<"#", " ", "sample">>,
      <<" ">>,
      <<"pnd">>,
      <<"config", " ", "MaxPayloads">>,
      Directive("pnd", "UpdateTimeout", Dec(1)),
      Directive("pnd", "UpdateTimeout", Dec(INT_MAX)),
      Directive("pnd", "UpdateTimeout", Dec(INT_MAX + 1)),
      Directive("pnd", "UpdateTimeout", <<"x">>),
      Directive("pnd", "UpdateTimeout", <<"-", "1">>),
      Directive("config", "MaxHostClientApps", Dec(2)),
      Directive("config", "MaxPayloads", Dec(3)),
      <<" ", "config", "\t", "MaxHostServices", " ", " ", "1", " ">>,
      Directive("config", "MaxHostServiceInfo", Dec(2)),
      Directive("protoid", "BannerGrab", <<"0">>),
      Directive("protoid", "BannerGrab", <<"1">>),
      Directive("protoid", "BannerGrab", <<"n", "o">>),
      Directive("config", "UpdateTimeout", <<"x">>),
      <<"garbage", " ", "line", " ", "here", " ", "extra">>,
      Directive("config", "MaxPayloads", Dec(2)) \o <<" ", "extra">> }

\* the contents a configuration file can have
Files == UNION { [1..n -> LinePool] : n \in 0..MaxLines }

\* the file system: the paths an ifstream opens ("noperm.conf" names a file
\* that cannot be read, "missing.conf" no file)
ReadablePaths == {"rna.conf"}

\* what RnaModule::get_config() hands to the inspector
ModuleConfigs ==
    { [rna_conf_path |-> "", rna_util_lib_path |-> "",
       fingerprint_dir |-> "", custom_fingerprint_dir |-> ""],
      [rna_conf_path |-> "missing.conf", rna_util_lib_path |-> "/lib/rna",
       fingerprint_dir |-> "", custom_fingerprint_dir |-> "/fp/custom"],
      [rna_conf_path |-> "noperm.conf", rna_util_lib_path |-> "",
       fingerprint_dir |-> "/fp", custom_fingerprint_dir |-> ""],
      [rna_conf_path |-> "rna.conf", rna_util_lib_path |-> "/lib/rna",
       fingerprint_dir |-> "/fp", custom_fingerprint_dir |-> ""],
      NullPtr }

\* packet_flags as the set of the bits that are set
PacketFlags == {"PKT_REBUILT_STREAM", "PKT_FROM_CLIENT"}
Packets == { [packet_flags |-> fl] : fl \in SUBSET PacketFlags }

\* ------------------------------------------------------------------ state
VARIABLES
    phase,       \* "new", "loading", "loaded", "active", "thrown", "destroyed"
    mod_conf,    \* RnaInspector::mod_conf
    rna_conf,    \* RnaInspector::rna_conf
    in_stream,   \* load_rna_conf's ifstream: the file's lines, the lines read, failbit
    line_num,    \* load_rna_conf's line_num
    ret,         \* what load_rna_conf returns
    thrown,      \* the exception that left the constructor, "none" when none
    warnings,    \* what WarningMessage was given, in order
    out,         \* what LogMessage was given by the last show()
    rna_stats,   \* rna_stats.total_packets of each thread
    seen,        \* history: packets without PKT_REBUILT_STREAM each thread evaluated
    last_eval    \* history: the thread and packet of the last eval()

vars == <<phase, mod_conf, rna_conf, in_stream, line_num, ret, thrown, warnings,
          out, rna_stats, seen, last_eval>>

NoStream == [is_open |-> FALSE, lines |-> <<>>, pos |-> 0, fail |-> TRUE]

LoadFailedWarning == [msg |-> "load_failed", line |-> 0, path |-> ""]

PathOf(mod) == IF mod = NullPtr THEN "" ELSE mod.rna_conf_path

Init ==
    /\ phase = "new"
    /\ mod_conf = NullPtr
    /\ rna_conf = NullPtr
    /\ in_stream = NoStream
    /\ line_num = 0
    /\ ret = FALSE
    /\ thrown = "none"
    /\ warnings = <<>>
    /\ out = <<>>
    /\ rna_stats = [t \in Threads |-> 0]
    /\ seen = [t \in Threads |-> 0]
    /\ last_eval = NullPtr

\* ------------------------------------------------------------ construction
\* ifstream in_stream(path): the stream is good iff the file could be opened
OpenOk(mod) == mod # NullPtr /\ mod.rna_conf_path \in ReadablePaths

\* ctor without  if (!in_stream) return false : the loop is reached with a
\* stream whose failbit is set
ctor_no_stream_check(mod, file) ==
    /\ phase = "new"
    /\ mod_conf' = mod
    /\ rna_conf' = DefaultRnaConfig
    /\ IF mod = NullPtr
       THEN in_stream' = NoStream /\ phase' = "loaded"
       ELSE /\ in_stream' = IF mod.rna_conf_path \in ReadablePaths
                            THEN [is_open |-> TRUE, lines |-> file, pos |-> 0, fail |-> FALSE]
                            ELSE [is_open |-> FALSE, lines |-> <<>>, pos |-> 0, fail |-> TRUE]
            /\ phase' = "loading"
    /\ line_num' = 0
    /\ ret' = FALSE
    /\ UNCHANGED <<thrown, warnings, out, rna_stats, seen, last_eval>>

\* RnaInspector(mod) up to the loop of load_rna_conf: mod_conf is set, the
\* record is allocated with its defaults, and the file is opened; load
\* returns false when there is no module configuration or no stream.
ctor(mod, file) ==
    /\ phase = "new"
    /\ mod_conf' = mod
    /\ rna_conf' = DefaultRnaConfig
    /\ IF OpenOk(mod)
       THEN /\ in_stream' = [is_open |-> TRUE, lines |-> file, pos |-> 0, fail |-> FALSE]
            /\ phase' = "loading"
       ELSE /\ in_stream' = NoStream
            /\ phase' = "loaded"
    /\ line_num' = 0
    /\ ret' = FALSE
    /\ UNCHANGED <<thrown, warnings, out, rna_stats, seen, last_eval>>

\* getline(in_stream, line): the next line; at the end of the file the
\* empty string, and failbit is set
GetLine(s) ==
    IF s.pos < Len(s.lines)
    THEN [line |-> s.lines[s.pos + 1], stream |-> [s EXCEPT !.pos = s.pos + 1]]
    ELSE [line |-> <<>>, stream |-> [s EXCEPT !.fail = TRUE]]

\* one iteration of while (in_stream)
load_line ==
    /\ phase = "loading"
    /\ ~in_stream.fail
    /\ LET g == GetLine(in_stream)
           o == LineOutcome(rna_conf, g.line, line_num + 1, PathOf(mod_conf))
       IN  /\ in_stream' = g.stream
           /\ line_num' = line_num + 1
           /\ rna_conf' = o.conf
           /\ warnings' = warnings \o o.warn
           /\ thrown' = o.thrown
           /\ phase' = IF o.thrown = "none" THEN "loading" ELSE "thrown"
    /\ UNCHANGED <<mod_conf, ret, out, rna_stats, seen, last_eval>>

\* the loop ends: in_stream.close(); return true
load_done ==
    /\ phase = "loading"
    /\ in_stream.fail
    /\ in_stream' = [in_stream EXCEPT !.is_open = FALSE]
    /\ ret' = TRUE
    /\ phase' = "loaded"
    /\ UNCHANGED <<mod_conf, rna_conf, line_num, thrown, warnings, out, rna_stats,
                   seen, last_eval>>

\* load_rna_conf has returned: the constructor warns when it returned false
ctor_done ==
    /\ phase = "loaded"
    /\ warnings' = IF ret THEN warnings ELSE Append(warnings, LoadFailedWarning)
    /\ in_stream' = NoStream
    /\ line_num' = 0
    /\ phase' = "active"
    /\ UNCHANGED <<mod_conf, rna_conf, ret, thrown, out, rna_stats, seen, last_eval>>

\* ------------------------------------------------------------- operations
IsRebuilt(p) == "PKT_REBUILT_STREAM" \in p.packet_flags

\* eval without the PKT_REBUILT_STREAM test
eval_counts_rebuilt(t, p) ==
    /\ phase = "active"
    /\ IsRebuilt(p) \/ seen[t] < MaxPackets
    /\ rna_stats[t] < MaxPackets
    /\ rna_stats' = [rna_stats EXCEPT ![t] = rna_stats[t] + 1]
    /\ seen' = IF "PKT_REBUILT_STREAM" \in p.packet_flags THEN seen
               ELSE [seen EXCEPT ![t] = seen[t] + 1]
    /\ last_eval' = [thread |-> t, packet |-> p]
    /\ UNCHANGED <<phase, mod_conf, rna_conf, in_stream, line_num, ret, thrown,
                   warnings, out>>

\* eval(p) on thread t
eval(t, p) ==
    /\ phase = "active"
    /\ IsRebuilt(p) \/ seen[t] < MaxPackets
    /\ rna_stats' = IF IsRebuilt(p) THEN rna_stats
                    ELSE [rna_stats EXCEPT ![t] = rna_stats[t] + 1]
    /\ seen' = IF "PKT_REBUILT_STREAM" \in p.packet_flags THEN seen
               ELSE [seen EXCEPT ![t] = seen[t] + 1]
    /\ last_eval' = [thread |-> t, packet |-> p]
    /\ UNCHANGED <<phase, mod_conf, rna_conf, in_stream, line_num, ret, thrown,
                   warnings, out>>

PathLine(label, path) == IF path = "" THEN <<>> ELSE <<<<label, path>>>>

\* the lines show() logs
ShowReport(mc, rc) ==
    <<"RNA Configuration">>
    \o (IF mc # NullPtr
        THEN PathLine("Config path", mc.rna_conf_path)
             \o PathLine("Library path", mc.rna_util_lib_path)
             \o PathLine("Fingerprint dir", mc.fingerprint_dir)
             \o PathLine("Custom fingerprint dir", mc.custom_fingerprint_dir)
        ELSE <<>>)
    \o (IF rc # NullPtr
        THEN << <<"Update timeout", rc.update_timeout>>,
                <<"Max host client apps", rc.max_host_client_apps>>,
                <<"Max payloads", rc.max_payloads>>,
                <<"Max host services", rc.max_host_services>>,
                <<"Max host service info", rc.max_host_service_info>>,
                <<"Banner grab", IF rc.enable_banner_grab THEN 1 ELSE 0>> >>
        ELSE <<>>)
    \o <<"">>

show ==
    /\ phase = "active"
    /\ out' = ShowReport(mod_conf, rna_conf)
    /\ UNCHANGED <<phase, mod_conf, rna_conf, in_stream, line_num, ret, thrown,
                   warnings, rna_stats, seen, last_eval>>

tinit(t) ==
    /\ phase = "active"
    /\ UNCHANGED vars

\* tterm that frees the configuration record
tterm_frees_conf(t) ==
    /\ phase = "active"
    /\ rna_conf' = NullPtr
    /\ UNCHANGED <<phase, mod_conf, in_stream, line_num, ret, thrown, warnings, out,
                   rna_stats, seen, last_eval>>

tterm(t) ==
    /\ phase = "active"
    /\ UNCHANGED vars

\* ~RnaInspector(): delete mod_conf; delete rna_conf
dtor ==
    /\ phase = "active"
    /\ mod_conf' = NullPtr
    /\ rna_conf' = NullPtr
    /\ phase' = "destroyed"
    /\ UNCHANGED <<in_stream, line_num, ret, thrown, warnings, out, rna_stats,
                   seen, last_eval>>

\* new RnaInspector(mod), with the file system as it is then
construct ==
    /\ phase = "new"
    /\ \E mod \in ModuleConfigs, file \in Files : ctor(mod, file)

Next ==
    \/ construct
    \/ load_line
    \/ load_done
    \/ ctor_done
    \/ \E t \in Threads, p \in Packets : eval(t, p)
    \/ show
    \/ \E t \in Threads : tinit(t)
    \/ \E t \in Threads : tterm(t)
    \/ dtor

Spec == Init /\ [][Next]_vars

\* ----------------------------------------------------- vocabulary of claims
\* the white-space separated tokens of a line, all of them
RECURSIVE SplitWs(_, _)
SplitWs(s, cur) ==
    LET done == IF cur = <<>> THEN <<>> ELSE <<cur>>
    IN  IF s = <<>> THEN done
        ELSE IF Head(s) \in {" ", "\t"} THEN done \o SplitWs(Tail(s), <<>>)
        ELSE SplitWs(Tail(s), Append(cur, Head(s)))

Tokens(line) == SplitWs(line, <<>>)

IsBlank(line) == line = <<>>
IsComment(line) == line # <<>> /\ line[1] = "#"
IsShort(line) == ~IsBlank(line) /\ ~IsComment(line) /\ Len(Tokens(line)) < 3

\* the table of recognized integer directives
IntDirectives ==
    { [type |-> "pnd", key |-> "UpdateTimeout", field |-> "update_timeout"],
      [type |-> "config", key |-> "MaxHostClientApps", field |-> "max_host_client_apps"],
      [type |-> "config", key |-> "MaxPayloads", field |-> "max_payloads"],
      [type |-> "config", key |-> "MaxHostServices", field |-> "max_host_services"],
      [type |-> "config", key |-> "MaxHostServiceInfo", field |-> "max_host_service_info"] }

\* the line's first two tokens are d's type and key
Names(line, d) ==
    /\ ~IsBlank(line) /\ ~IsComment(line)
    /\ Len(Tokens(line)) >= 3
    /\ Tokens(line)[1] = <<d.type>>
    /\ Tokens(line)[2] = <<d.key>>

BannerGrab == [type |-> "protoid", key |-> "BannerGrab", field |-> "enable_banner_grab"]

AllDigits(tok) == tok # <<>> /\ \A i \in 1..Len(tok) : tok[i] \in {DigitAtoms[d] : d \in 1..10}

\* the file being loaded and the lines of it that have been read
FileLines == in_stream.lines
NumRead == in_stream.pos
InLoad == phase \in {"loading", "thrown"} \/ (phase = "loaded" /\ ret)
Loaded == phase = "loaded" /\ ret

ConfPath == IF mod_conf = NullPtr THEN "" ELSE mod_conf.rna_conf_path

EmptyItemsWarning(i) == [msg |-> "empty_items", line |-> i, path |-> ConfPath]

\* the number of times w was given to WarningMessage
Count(w) == Cardinality({k \in 1..Len(warnings) : warnings[k] = w})

\* -------------------------------------------------------------------- C1
\* C1: construction never fails outright: whatever the module configuration
\* and the content of the file, no exception leaves the constructor, and
\* the constructed inspector holds a ConfigRecord.
C1_ConstructNeverFails ==
    /\ phase # "thrown"
    /\ phase = "active" => rna_conf # NullPtr

\* -------------------------------------------------------------------- C2
MissingFile == ConfPath \in {"", "missing.conf", "noperm.conf"} /\ mod_conf # NullPtr

\* C2: an inspector constructed with an empty path, the path of no file or
\* the path of a file that cannot be opened is usable: its record is the
\* default record, construction gave exactly one warning, the one of the
\* failed load, and show() logs the default values.
C2_MissingFileDefaults ==
    MissingFile =>
        /\ phase \in {"loaded", "active"}
        /\ thrown = "none"
        /\ rna_conf = DefaultRnaConfig
        /\ phase = "loaded" => ~ret /\ warnings = <<>>
        /\ phase = "active" =>
            /\ warnings = <<LoadFailedWarning>>
            /\ out # <<>> =>
                /\ Len(out) >= 8
                /\ out[1] = "RNA Configuration"
                /\ out[Len(out) - 6] = <<"Update timeout", DefaultRnaConfig.update_timeout>>
                /\ out[Len(out) - 1] = <<"Banner grab", 0>>
                /\ out[Len(out)] = ""

C2_Witness ==
    /\ phase = "active"
    /\ ConfPath = "missing.conf"
    /\ warnings = <<LoadFailedWarning>>
    /\ out # <<>>

\* -------------------------------------------------------------------- C9
\* C9: eval on a packet with PKT_REBUILT_STREAM leaves total_packets as it
\* is, eval on any other packet adds one to the counter of the calling
\* thread and to no other; so each thread's counter is the number of
\* packets without the flag that the thread evaluated, and never decreases.
C9_RebuiltExcludedPerThread ==
    /\ [](\A t \in Threads : rna_stats[t] = seen[t])
    /\ [][\A t \in Threads, p \in Packets :
            eval(t, p) =>
                IF "PKT_REBUILT_STREAM" \in p.packet_flags
                THEN rna_stats' = rna_stats
                ELSE /\ rna_stats'[t] = rna_stats[t] + 1
                     /\ \A u \in Threads \ {t} : rna_stats'[u] = rna_stats[u]]_vars
    /\ [][\A t \in Threads : rna_stats'[t] >= rna_stats[t]]_vars

C9_Witness ==
    /\ rna_stats["pkt_thread_1"] = 1
    /\ rna_stats["pkt_thread_2"] = MaxPackets
    /\ last_eval = [thread |-> "pkt_thread_1",
                    packet |-> [packet_flags |-> {"PKT_REBUILT_STREAM"}]]

\* ------------------------------------------------------------------- C10
\* C10: between construction and destruction no operation (eval, show,
\* tinit, tterm) changes the ConfigRecord, the ModuleConfig or the
\* inspector's pointers to them.
C10_ConfigReadOnlyWhenActive ==
    [][(phase = "active" /\ phase' = "active") =>
            (mod_conf' = mod_conf /\ rna_conf' = rna_conf)]_vars

C10_Witness ==
    /\ phase = "active"
    /\ rna_conf # NullPtr /\ rna_conf # DefaultRnaConfig
    /\ mod_conf # NullPtr
    /\ out # <<>>
    /\ last_eval # NullPtr
    /\ \E t \in Threads : rna_stats[t] > 0

\* -------------------------------------------------------------------- C3
\* C3: every line that is read, is neither blank nor a comment and has
\* fewer than three tokens gives exactly one warning with its 1-based line
\* number and the path, and does not stop the scan: the load goes on to
\* the end of the file and reports success.
C3_ShortLineWarnsAndScanGoesOn ==
    InLoad =>
        \A i \in 1..NumRead :
            IsShort(FileLines[i]) =>
                /\ Count(EmptyItemsWarning(i)) = 1
                /\ phase # "thrown"

\* -------------------------------------------------------------------- C4
ExtraTokens(line) == ~IsBlank(line) /\ ~IsComment(line) /\ Len(Tokens(line)) > 3

\* C4 as claimed: a line with more than three tokens that has been read was
\* flagged with exactly one warning.
C4_ExtraTokensFlagged ==
    InLoad =>
        \A i \in 1..NumRead :
            ExtraTokens(FileLines[i]) => Count(EmptyItemsWarning(i)) = 1

\* the line the scan reads next
AtLine == phase = "loading" /\ NumRead < Len(FileLines)
NextLine == FileLines[NumRead + 1]

\* C4 as amended: a line with more than three tokens is not flagged.  The
\* step that reads it emits no warning, drops the tokens after the third
\* and treats the first three as the directive: an integer directive with a
\* decimal value within int is stored, BannerGrab with a value other than
\* "0" enables banner grab, an unrecognized pair changes nothing.
C4_ExtraTokensIgnored ==
    [][(AtLine /\ ExtraTokens(NextLine)) =>
        LET w == Tokens(NextLine)
            ds == {d \in IntDirectives : Names(NextLine, d)}
        IN  /\ warnings' = warnings
            /\ \A d \in ds :
                (AllDigits(w[3]) /\ DecVal(w[3]) <= INT_MAX) =>
                    /\ rna_conf' = [rna_conf EXCEPT ![d.field] = DecVal(w[3])]
                    /\ phase' = "loading"
            /\ (Names(NextLine, BannerGrab) /\ w[3] # <<"0">>) =>
                    /\ rna_conf' = [rna_conf EXCEPT !.enable_banner_grab = TRUE]
                    /\ phase' = "loading"
            /\ (ds = {} /\ ~Names(NextLine, BannerGrab)) =>
                    /\ rna_conf' = rna_conf
                    /\ phase' = "loading"]_vars

C4_Witness ==
    /\ phase = "loading"
    /\ NumRead = 2
    /\ FileLines[1] = <<"garbage", " ", "line", " ", "here", " ", "extra">>
    /\ FileLines[2] = Directive("config", "MaxPayloads", Dec(2)) \o <<" ", "extra">>
    /\ rna_conf = [DefaultRnaConfig EXCEPT !.max_payloads = 2]
    /\ warnings = <<>>

\* -------------------------------------------------------------------- C5
\* malformed as the claim counts it: comment, blank, or not three tokens
Malformed(line) == IsBlank(line) \/ IsComment(line) \/ Len(Tokens(line)) # 3

\* C5 as claimed: a load that ends has emitted exactly M warnings, M the
\* number of malformed lines of the file.
C5_OneWarningPerMalformedLine ==
    Loaded =>
        Len(warnings) = Cardinality({i \in 1..Len(FileLines) : Malformed(FileLines[i])})

\* the warnings of the short lines among the first n lines, in order
RECURSIVE ShortLineWarnings(_)
ShortLineWarnings(n) ==
    IF n = 0 THEN <<>>
    ELSE ShortLineWarnings(n - 1)
         \o (IF IsShort(FileLines[n]) THEN <<EmptyItemsWarning(n)>> ELSE <<>>)

\* lines without the blank, comment and short ones
RECURSIVE WellFormed(_)
WellFormed(lines) ==
    IF lines = <<>> THEN <<>>
    ELSE (IF IsBlank(Head(lines)) \/ IsComment(Head(lines)) \/ IsShort(Head(lines))
          THEN <<>> ELSE <<Head(lines)>>) \o WellFormed(Tail(lines))

\* the record the directives of lines build, one after the other
RECURSIVE RecordOf(_, _)
RecordOf(conf, lines) ==
    IF lines = <<>> THEN conf
    ELSE RecordOf(LineOutcome(conf, Head(lines), 0, "").conf, Tail(lines))

\* C5 as amended: at every point of the scan the warnings emitted are one
\* for each line read that is neither blank nor a comment and has fewer
\* than three tokens, in order, each with its line number; blank lines,
\* comment lines and lines with more than three tokens give none.  Blank,
\* comment and short lines never stop the scan, and the record is the one
\* built from the other lines read.
C5_WarningsForShortLinesOnly ==
    InLoad =>
        /\ warnings = ShortLineWarnings(NumRead)
        /\ rna_conf = RecordOf(DefaultRnaConfig, WellFormed(SubSeq(FileLines, 1, NumRead)))
        /\ (phase = "thrown" /\ NumRead > 0) =>
              LET line == FileLines[NumRead]
              IN  ~IsBlank(line) /\ ~IsComment(line) /\ ~IsShort(line)

C5_Witness ==
    /\ Loaded
    /\ Len(FileLines) = 3
    /\ IsComment(FileLines[1])
    /\ IsShort(FileLines[2])
    /\ Len(Tokens(FileLines[3])) = 3
    /\ warnings = <<EmptyItemsWarning(2)>>
    /\ rna_conf # DefaultRnaConfig

\* -------------------------------------------------------------------- C6
\* the number of the last line that names directive d, 0 when none does
LastOf(d) ==
    LET is == {i \in 1..Len(FileLines) : Names(FileLines[i], d)}
    IN  IF is = {} THEN 0 ELSE CHOOSE i \in is : \A j \in is : j <= i

\* C6: after the load every recognized key holds the value of the last line
\* that gives it: an integer field the decimal value of that line, and
\* enable_banner_grab is true iff the value of the last BannerGrab line is
\* not "0".
C6_LastDirectiveWins ==
    Loaded =>
        /\ \A d \in IntDirectives :
              LET i == LastOf(d)
              IN  (i # 0 /\ AllDigits(Tokens(FileLines[i])[3])) =>
                      rna_conf[d.field] = DecVal(Tokens(FileLines[i])[3])
        /\ LET i == LastOf(BannerGrab)
           IN  i # 0 => (rna_conf.enable_banner_grab <=> Tokens(FileLines[i])[3] # <<"0">>)

\* -------------------------------------------------------------------- C7
\* one directive per key, each of three tokens, each integer value a
\* decimal number of the unsigned range
RoundTripFile ==
    /\ \A i \in 1..Len(FileLines) :
          /\ ~IsBlank(FileLines[i]) /\ ~IsComment(FileLines[i])
          /\ Len(Tokens(FileLines[i])) = 3
          /\ \/ Names(FileLines[i], BannerGrab)
             \/ \E d \in IntDirectives :
                   /\ Names(FileLines[i], d)
                   /\ AllDigits(Tokens(FileLines[i])[3])
                   /\ DecVal(Tokens(FileLines[i])[3]) <= UINT_MAX
    /\ \A d \in IntDirectives \cup {BannerGrab} :
          Cardinality({i \in 1..Len(FileLines) : Names(FileLines[i], d)}) <= 1

\* C7: the load of a round-trip file ends, and then every integer field
\* whose key is in the file holds the value given, enable_banner_grab is
\* true iff its token is not "0", and every other field has its default.
C7_RoundTrip ==
    (InLoad /\ RoundTripFile) =>
        /\ phase # "thrown"
        /\ Loaded =>
            /\ \A d \in IntDirectives :
                  LET i == LastOf(d)
                  IN  rna_conf[d.field] =
                          IF i = 0 THEN DefaultRnaConfig[d.field]
                          ELSE DecVal(Tokens(FileLines[i])[3])
            /\ LET i == LastOf(BannerGrab)
               IN  rna_conf.enable_banner_grab <=>
                       (i # 0 /\ Tokens(FileLines[i])[3] # <<"0">>)

\* -------------------------------------------------------------------- C8
\* a line the load passes over in silence: blank, comment, or three tokens
\* whose (type, key) is none of the six recognized pairs
Silent(line) ==
    \/ IsBlank(line)
    \/ IsComment(line)
    \/ /\ Len(Tokens(line)) = 3
       /\ ~Names(line, BannerGrab)
       /\ \A d \in IntDirectives : ~Names(line, d)

\* C8: the step that reads a blank line, a comment or a three-token line
\* with an unrecognized (type, key) changes no field of the record, emits
\* no warning and does not end the load, whatever the value token.
C8_SilentLinesHaveNoEffect ==
    [][(AtLine /\ Silent(NextLine)) =>
        /\ rna_conf' = rna_conf
        /\ warnings' = warnings
        /\ thrown' = "none"
        /\ phase' = "loading"
        /\ in_stream'.pos = NumRead + 1]_vars

C8_Witness ==
    /\ phase = "loading"
    /\ NumRead = 3
    /\ FileLines[1] = <<>>
    /\ FileLines[2] = <<"#">> \o Directive("pnd", "UpdateTimeout", Dec(2))
    /\ FileLines[3] = Directive("config", "UpdateTimeout", <<"x">>)
    /\ rna_conf = DefaultRnaConfig
    /\ warnings = <<>>

====
